---- MODULE Spec2Model ----
(***************************************************************************)
(* MultiTypeMap<T> (src/lib.rs): a map from keys of several static types   *)
(* to values of one type T.  The container owns                            *)
(*     maps   : HashMap<TypeId, Box<dyn Any>>   one boxed HashMap<K, T>    *)
(*                                              per key type K             *)
(*     length : usize                           the global entry counter   *)
(* Every public method is one action.  `call` and `ret` record the last    *)
(* call and what it returned, `pmaps` and `plength` the container as that   *)
(* call found it; `borrow` is the `&mut T` handed out by the last get_mut  *)
(* while no other call has been made on the container.                     *)
(***************************************************************************)
EXTENDS Integers, FiniteSets, TLC

VARIABLES maps, length, call, ret, borrow, aborted, pmaps, plength

vars == <<maps, length, call, ret, borrow, aborted, pmaps, plength>>

\* Largest key of each key type, and largest value of T, that the calls use.
MaxKey == 2
MaxVal == 2

\* The key types K the calls are instantiated with (test_strings: &str, String).
KeyTypes == {"str", "String"}

\* Keys are named by their external representation: key 1 of type "str" and
\* key 1 of type "String" are the literal "foo" and the owned string "foo".
Keys == 1..MaxKey
Values == 1..MaxVal

\* Option<T>
None == [some |-> FALSE, v |-> 0]
Some(v) == [some |-> TRUE, v |-> v]

\* Fault: a type identifier that does not tell the key types apart.
TypeIdOf_Collide(K) == <<"TypeId", "str">>

\* TypeId::of::<K>(): one identifier per static type.
TypeIdOf(K) == <<"TypeId", K>>

\* HashMap<K, T>::default()
HM_new == [k \in {} |-> 0]

\* HashMap::get / get_mut: the value stored for k, if any.
HM_get(m, k) == IF k \in DOMAIN m THEN Some(m[k]) ELSE None

\* HashMap::insert: the map with k -> v, and the value k had before.
HM_insert(m, k, v) ==
    [map |-> [x \in (DOMAIN m) \cup {k} |-> IF x = k THEN v ELSE m[x]],
     old |-> HM_get(m, k)]

\* HashMap::remove: the map without k, and the value k had.
HM_remove(m, k) ==
    [map |-> [x \in (DOMAIN m) \ {k} |-> m[x]],
     old |-> HM_get(m, k)]

\* Box<HashMap<K, T>> as Box<dyn Any>: the concrete type it was built with
\* (what downcast compares) and its entries.
BoxNew(K) == [ty |-> K, m |-> HM_new]

\* <dyn Any>::downcast_ref / downcast_mut ::<HashMap<K, T>>() succeeds.
Downcast(box, K) == box.ty = K

\* MultiTypeMap::map::<K>(&self): found = a bucket is registered for K,
\* ok = the expect() on the downcast did not panic.
map(ms, K) ==
    LET id == TypeIdOf(K)
    IN  IF id \in DOMAIN ms
        THEN [found |-> TRUE, ok |-> Downcast(ms[id], K), id |-> id]
        ELSE [found |-> FALSE, ok |-> TRUE, id |-> id]

\* Fault: map_mut through maps.insert(id, default), which registers a fresh
\* bucket on every call in place of the one already there.
map_mut_AlwaysNew(ms, K) ==
    LET id == TypeIdOf(K)
        ms1 == [x \in (DOMAIN ms) \cup {id} |->
                   IF x = id THEN BoxNew(K) ELSE ms[x]]
    IN  [maps |-> ms1, id |-> id, ok |-> Downcast(ms1[id], K)]

\* Fault: map_mut that files every key type under one identifier and takes
\* the bucket as HashMap<K, T> without checking what it was built as.
map_mut_OneBucket(ms, K) ==
    LET id == TypeIdOf("str")
        ms1 == IF id \in DOMAIN ms
               THEN ms
               ELSE [x \in (DOMAIN ms) \cup {id} |->
                        IF x = id THEN BoxNew(K) ELSE ms[x]]
    IN  [maps |-> ms1, id |-> id, ok |-> TRUE]

\* MultiTypeMap::map_mut::<K>(&mut self): entry(id).or_insert_with(default)
\* registers an empty bucket when none is there, then downcasts it.
map_mut(ms, K) ==
    LET id == TypeIdOf(K)
        ms1 == IF id \in DOMAIN ms
               THEN ms
               ELSE [x \in (DOMAIN ms) \cup {id} |->
                        IF x = id THEN BoxNew(K) ELSE ms[x]]
    IN  [maps |-> ms1, id |-> id, ok |-> Downcast(ms1[id], K)]

\* No `&mut T` is outstanding.
NoRef == [live |-> FALSE, K |-> "-", key |-> 0]
Ref(K, key) == [live |-> TRUE, K |-> K, key |-> key]

\* Fault: insert whose closure does not take the increment back.
insert_NoDecrement(ms, len, K, key, value) ==
    LET len1 == len + 1
        r == map_mut(ms, K)
    IN  IF r.ok
        THEN LET ins == HM_insert(r.maps[r.id].m, key, value)
             IN  [maps |-> [r.maps EXCEPT ![r.id].m = ins.map],
                  length |-> len1,
                  ret |-> ins.old, ok |-> TRUE]
        ELSE [maps |-> r.maps, length |-> len1, ret |-> None, ok |-> FALSE]

\* Fault: insert without the leading `length += 1`.
insert_NoIncrement(ms, len, K, key, value) ==
    LET r == map_mut(ms, K)
    IN  IF r.ok
        THEN LET ins == HM_insert(r.maps[r.id].m, key, value)
             IN  [maps |-> [r.maps EXCEPT ![r.id].m = ins.map],
                  length |-> IF ins.old.some THEN len - 1 ELSE len,
                  ret |-> ins.old, ok |-> TRUE]
        ELSE [maps |-> r.maps, length |-> len, ret |-> None, ok |-> FALSE]

\* Fault: insert through entry(key).or_insert(value), which keeps the value
\* of a key the bucket already has.
insert_KeepOld(ms, len, K, key, value) ==
    LET len1 == len + 1
        r == map_mut(ms, K)
    IN  IF r.ok
        THEN LET m == r.maps[r.id].m
                 ins == IF key \in DOMAIN m
                        THEN [map |-> m, old |-> HM_get(m, key)]
                        ELSE HM_insert(m, key, value)
             IN  [maps |-> [r.maps EXCEPT ![r.id].m = ins.map],
                  length |-> IF ins.old.some THEN len1 - 1 ELSE len1,
                  ret |-> ins.old, ok |-> TRUE]
        ELSE [maps |-> r.maps, length |-> len1, ret |-> None, ok |-> FALSE]

\* MultiTypeMap::insert: length += 1; map_mut().insert(key, value); the
\* closure takes the increment back when the bucket had the key.  length is
\* a usize; it never exceeds the number of keys the calls use plus one, so
\* the increment cannot wrap and the counter is kept as an integer.  A
\* `length -= 1` at 0 (a panic in a debug build, a wrap to usize::MAX in a
\* release build) shows as a length below 0.
insert(ms, len, K, key, value) ==
    LET len1 == len + 1
        r == map_mut(ms, K)
    IN  IF r.ok
        THEN LET ins == HM_insert(r.maps[r.id].m, key, value)
             IN  [maps |-> [r.maps EXCEPT ![r.id].m = ins.map],
                  length |-> IF ins.old.some THEN len1 - 1 ELSE len1,
                  ret |-> ins.old, ok |-> TRUE]
        ELSE [maps |-> r.maps, length |-> len1, ret |-> None, ok |-> FALSE]

\* Fault: remove that drops the bucket it has emptied.
remove_Prune(ms, len, K, key) ==
    LET r == map_mut(ms, K)
    IN  IF r.ok
        THEN LET rem == HM_remove(r.maps[r.id].m, key)
                 kept == [r.maps EXCEPT ![r.id].m = rem.map]
             IN  [maps |-> IF DOMAIN rem.map = {}
                           THEN [x \in (DOMAIN kept) \ {r.id} |-> kept[x]]
                           ELSE kept,
                  length |-> IF rem.old.some THEN len - 1 ELSE len,
                  ret |-> rem.old, ok |-> TRUE]
        ELSE [maps |-> r.maps, length |-> len, ret |-> None, ok |-> FALSE]

\* Fault: remove that never decrements length.
remove_NoDecrement(ms, len, K, key) ==
    LET r == map_mut(ms, K)
    IN  IF r.ok
        THEN LET rem == HM_remove(r.maps[r.id].m, key)
             IN  [maps |-> [r.maps EXCEPT ![r.id].m = rem.map],
                  length |-> len,
                  ret |-> rem.old, ok |-> TRUE]
        ELSE [maps |-> r.maps, length |-> len, ret |-> None, ok |-> FALSE]

\* Fault: remove that decrements length outside the closure, hit or miss.
remove_AlwaysDecrement(ms, len, K, key) ==
    LET r == map_mut(ms, K)
    IN  IF r.ok
        THEN LET rem == HM_remove(r.maps[r.id].m, key)
             IN  [maps |-> [r.maps EXCEPT ![r.id].m = rem.map],
                  length |-> len - 1,
                  ret |-> rem.old, ok |-> TRUE]
        ELSE [maps |-> r.maps, length |-> len, ret |-> None, ok |-> FALSE]

\* MultiTypeMap::remove: map_mut::<K>().remove(key); the closure decrements
\* length when a value came out.
remove(ms, len, K, key) ==
    LET r == map_mut(ms, K)
    IN  IF r.ok
        THEN LET rem == HM_remove(r.maps[r.id].m, key)
             IN  [maps |-> [r.maps EXCEPT ![r.id].m = rem.map],
                  length |-> IF rem.old.some THEN len - 1 ELSE len,
                  ret |-> rem.old, ok |-> TRUE]
        ELSE [maps |-> r.maps, length |-> len, ret |-> None, ok |-> FALSE]

\* MultiTypeMap::get: map::<K>().and_then(|map| map.get(key)).
get(ms, K, key) ==
    LET r == map(ms, K)
    IN  IF ~r.found THEN [ret |-> None, ok |-> TRUE]
        ELSE IF r.ok THEN [ret |-> HM_get(ms[r.id].m, key), ok |-> TRUE]
        ELSE [ret |-> None, ok |-> FALSE]

\* Fault: get_mut through values_mut().next(): a reference to some entry of
\* the bucket (here the one with the least key) whenever the key is present.
get_mut_AnyEntry(ms, K, key) ==
    LET r == map_mut(ms, K)
    IN  IF r.ok
        THEN LET m == r.maps[r.id].m
                 first == CHOOSE k \in DOMAIN m : \A x \in DOMAIN m : k <= x
             IN  IF key \in DOMAIN m
                 THEN [maps |-> r.maps, ret |-> Some(m[first]),
                       ref |-> Ref(K, first), ok |-> TRUE]
                 ELSE [maps |-> r.maps, ret |-> None, ref |-> NoRef, ok |-> TRUE]
        ELSE [maps |-> r.maps, ret |-> None, ref |-> NoRef, ok |-> FALSE]

\* MultiTypeMap::get_mut: map_mut::<K>().get_mut(key).  ret is the value the
\* returned reference points at, ref the place it points at.
get_mut(ms, K, key) ==
    LET r == map_mut(ms, K)
    IN  IF r.ok
        THEN LET got == HM_get(r.maps[r.id].m, key)
             IN  [maps |-> r.maps, ret |-> got,
                  ref |-> IF got.some THEN Ref(K, key) ELSE NoRef, ok |-> TRUE]
        ELSE [maps |-> r.maps, ret |-> None, ref |-> NoRef, ok |-> FALSE]

\* MultiTypeMap::len and MultiTypeMap::is_empty
len == length

\* Fault: is_empty that asks whether any bucket is held (maps.is_empty()).
is_empty_NoBuckets == DOMAIN maps = {}

is_empty == length = 0

Call(op, K, key, value) == [op |-> op, K |-> K, key |-> key, value |-> value]

\* MultiTypeMap::new()
Init ==
    /\ maps = [id \in {} |-> 0]
    /\ length = 0
    /\ call = Call("new", "-", 0, 0)
    /\ ret = None
    /\ borrow = NoRef
    /\ aborted = FALSE
    /\ pmaps = [id \in {} |-> 0]
    /\ plength = 0

\* Every call starts from the container as the previous call left it.
Entered ==
    /\ pmaps' = maps
    /\ plength' = length

Insert(K, key, value) ==
    /\ ~aborted
    /\ Entered
    /\ LET r == insert(maps, length, K, key, value)
       IN  /\ maps' = r.maps
           /\ length' = r.length
           /\ ret' = r.ret
           /\ aborted' = ~r.ok
    /\ call' = Call("insert", K, key, value)
    /\ borrow' = NoRef

Remove(K, key) ==
    /\ ~aborted
    /\ Entered
    /\ LET r == remove(maps, length, K, key)
       IN  /\ maps' = r.maps
           /\ length' = r.length
           /\ ret' = r.ret
           /\ aborted' = ~r.ok
    /\ call' = Call("remove", K, key, 0)
    /\ borrow' = NoRef

\* Fault: get that resolves its bucket with map_mut, as get_mut does.
Get_ViaMapMut(K, key) ==
    /\ ~aborted
    /\ Entered
    /\ LET r == get_mut(maps, K, key)
       IN  /\ maps' = r.maps
           /\ ret' = r.ret
           /\ aborted' = ~r.ok
    /\ call' = Call("get", K, key, 0)
    /\ borrow' = NoRef
    /\ UNCHANGED length

Get(K, key) ==
    /\ ~aborted
    /\ Entered
    /\ LET r == get(maps, K, key)
       IN  /\ ret' = r.ret
           /\ aborted' = ~r.ok
    /\ call' = Call("get", K, key, 0)
    /\ borrow' = NoRef
    /\ UNCHANGED <<maps, length>>

GetMut(K, key) ==
    /\ ~aborted
    /\ Entered
    /\ LET r == get_mut(maps, K, key)
       IN  /\ maps' = r.maps
           /\ ret' = r.ret
           /\ borrow' = r.ref
           /\ aborted' = ~r.ok
    /\ call' = Call("get_mut", K, key, 0)
    /\ UNCHANGED length

\* The caller consumes the `&mut T` it got from get_mut by assigning through
\* it (`map.get_mut(&k).map(|v| *v = w)`) before it calls the container again.
WriteThrough(w) ==
    /\ ~aborted
    /\ Entered
    /\ borrow.live
    /\ maps' = [maps EXCEPT ![TypeIdOf(borrow.K)].m[borrow.key] = w]
    /\ call' = Call("write", borrow.K, borrow.key, w)
    /\ borrow' = NoRef
    /\ UNCHANGED <<length, ret, aborted>>

Next ==
    \/ \E K \in KeyTypes, key \in Keys, value \in Values : Insert(K, key, value)
    \/ \E K \in KeyTypes, key \in Keys : Remove(K, key)
    \/ \E K \in KeyTypes, key \in Keys : Get(K, key)
    \/ \E K \in KeyTypes, key \in Keys : GetMut(K, key)
    \/ \E w \in Values : WriteThrough(w)

Spec == Init /\ [][Next]_vars

(***************************************************************************)
(* The container under insert and remove alone, keeping of the last call   *)
(* only which method it was: the states from which pairs of calls are      *)
(* compared.                                                               *)
(***************************************************************************)
InsertOnly(K, key, value) ==
    /\ ~aborted
    /\ LET r == insert(maps, length, K, key, value)
       IN  /\ maps' = r.maps
           /\ length' = r.length
           /\ aborted' = ~r.ok
    /\ call' = Call("insert", "-", 0, 0)
    /\ UNCHANGED <<ret, borrow, pmaps, plength>>

RemoveOnly(K, key) ==
    /\ ~aborted
    /\ LET r == remove(maps, length, K, key)
       IN  /\ maps' = r.maps
           /\ length' = r.length
           /\ aborted' = ~r.ok
    /\ call' = Call("remove", "-", 0, 0)
    /\ UNCHANGED <<ret, borrow, pmaps, plength>>

NextPairs ==
    \/ \E K \in KeyTypes, key \in Keys, value \in Values : InsertOnly(K, key, value)
    \/ \E K \in KeyTypes, key \in Keys : RemoveOnly(K, key)

SpecPairs == Init /\ [][NextPairs]_vars

(***************************************************************************)
(* What the properties below observe.                                      *)
(***************************************************************************)

\* What get::<K>(key) answers on container ms.
Lookup(ms, K, key) == get(ms, K, key).ret

\* The identifiers under which ms holds a bucket.
Buckets(ms) == DOMAIN ms

\* Every entry stored in ms: bucket identifier, key, value.
Entries(ms) ==
    UNION {{<<id, k, ms[id].m[k]>> : k \in DOMAIN ms[id].m} : id \in DOMAIN ms}

\* The sizes of the buckets ids of ms, added up.
RECURSIVE SumSizes(_, _)
SumSizes(ms, ids) ==
    IF ids = {} THEN 0
    ELSE LET id == CHOOSE x \in ids : TRUE
         IN  Cardinality(DOMAIN ms[id].m) + SumSizes(ms, ids \ {id})

\* The last call was op and returned (did not panic).
Did(op) == call.op = op /\ ~aborted

\* What the last call's key was mapped to when the call was made.
Before == Lookup(pmaps, call.K, call.key)

\* What the last call's key is mapped to now.
After == Lookup(maps, call.K, call.key)

\* Every key other than the last call's, of any key type, is mapped as it was.
OthersUntouched ==
    \A K \in KeyTypes, key \in Keys :
        (K # call.K \/ key # call.key) => Lookup(maps, K, key) = Lookup(pmaps, K, key)

(***************************************************************************)
(* C1: in every reachable state len() is the number of entries summed over *)
(* all buckets held.                                                       *)
(***************************************************************************)
C1_LenIsSumOfBuckets == len = SumSizes(maps, Buckets(maps))

\* Both buckets hold entries, three in all, and the last call took one out.
C1_Witness ==
    /\ Did("remove") /\ ret.some
    /\ len = 3
    /\ \A K \in KeyTypes :
          TypeIdOf(K) \in Buckets(maps) /\ DOMAIN maps[TypeIdOf(K)].m # {}

(***************************************************************************)
(* C2: key types are never conflated.  An insert, remove, get_mut (or a    *)
(* write through its reference) on a key of type K1 leaves what every key  *)
(* of every other type K2 is mapped to as it was, the key with the same    *)
(* representation included, and its answer is what the K1 key itself was   *)
(* mapped to, not what a K2 key is mapped to.                              *)
(***************************************************************************)
C2_TypesNotConflated ==
    /\ call.op \in {"insert", "remove", "get_mut", "write"} =>
          \A K2 \in KeyTypes \ {call.K}, key \in Keys :
              Lookup(maps, K2, key) = Lookup(pmaps, K2, key)
    /\ call.op \in {"insert", "remove", "get_mut"} => ret = Before

\* An owned-string key is overwritten while the literal key with the same
\* representation is mapped to another value than the one returned.
C2_Witness ==
    /\ Did("insert") /\ call.K = "String" /\ ret.some
    /\ Lookup(maps, "str", call.key).some
    /\ Lookup(maps, "str", call.key) # ret
    /\ Lookup(maps, "str", call.key) # After

(***************************************************************************)
(* C3: insert(key, value) on an absent key returns None, increases len()   *)
(* by exactly 1 and leaves the key mapped to value.                        *)
(***************************************************************************)
C3_InsertAbsent ==
    (call.op = "insert" /\ ~Before.some) =>
        /\ ~aborted
        /\ ret = None
        /\ len = plength + 1
        /\ After = Some(call.value)

\* An absent key is inserted into a container that already has entries.
C3_Witness == Did("insert") /\ ~Before.some /\ plength >= 2

(***************************************************************************)
(* C4: insert(key, value) on a present key returns the value stored        *)
(* before, stores the new value and leaves len() unchanged.                *)
(***************************************************************************)
C4_InsertPresent ==
    (call.op = "insert" /\ Before.some) =>
        /\ ~aborted
        /\ ret = Before
        /\ len = plength
        /\ After = Some(call.value)

\* A present key is overwritten with a value other than the one it had.
C4_Witness == Did("insert") /\ Before.some /\ Before.v # call.value /\ plength >= 2

(***************************************************************************)
(* C5: remove(key) on a present key returns the stored value, decreases    *)
(* len() by exactly 1 and leaves the key absent: a following get or remove *)
(* of the key returns None.                                                *)
(***************************************************************************)
C5_RemovePresent ==
    (call.op = "remove" /\ Before.some) =>
        /\ ~aborted
        /\ ret = Before
        /\ len = plength - 1
        /\ get(maps, call.K, call.key) = [ret |-> None, ok |-> TRUE]
        /\ LET again == remove(maps, length, call.K, call.key)
           IN  again.ret = None /\ again.ok

\* A present key is removed and other entries stay behind.
C5_Witness == Did("remove") /\ Before.some /\ len >= 2

(***************************************************************************)
(* C6: remove(key) on an absent key, whether its key type has other        *)
(* entries or was never used, returns None without aborting and leaves     *)
(* len() and every stored entry unchanged.                                 *)
(***************************************************************************)
C6_RemoveAbsent ==
    (call.op = "remove" /\ ~Before.some) =>
        /\ ~aborted
        /\ ret = None
        /\ len = plength
        /\ Entries(maps) = Entries(pmaps)

\* An absent key of a never-used key type is removed from a container that
\* has entries of the other type.
C6_Witness ==
    /\ Did("remove") /\ ~Before.some
    /\ TypeIdOf(call.K) \notin Buckets(pmaps)
    /\ plength >= 2

(***************************************************************************)
(* C7: get(key) directly after insert(key, value) returns value, whether   *)
(* the key was absent or present before the insert.                        *)
(***************************************************************************)
C7_GetAfterInsert ==
    Did("insert") => get(maps, call.K, call.key) = [ret |-> Some(call.value), ok |-> TRUE]

\* The insert replaced another value.
C7_Witness == Did("insert") /\ ret.some /\ ret.v # call.value

(***************************************************************************)
(* C8: get_mut(key) on a present key gives access to the stored value; a   *)
(* value written through it is what a following get or get_mut of the key  *)
(* returns, and the write changes neither len() nor any other entry.       *)
(***************************************************************************)
C8_GetMutWrite ==
    /\ (call.op = "get_mut" /\ Before.some) =>
          /\ ~aborted
          /\ ret = Before
          /\ borrow = Ref(call.K, call.key)
    /\ call.op = "write" =>
          /\ Before.some
          /\ get(maps, call.K, call.key) = [ret |-> Some(call.value), ok |-> TRUE]
          /\ get_mut(maps, call.K, call.key).ret = Some(call.value)
          /\ len = plength
          /\ OthersUntouched
          /\ Buckets(maps) = Buckets(pmaps)

\* A new value was written over the one get_mut returned, next to other
\* entries.
C8_Witness == Did("write") /\ ret.some /\ ret.v # call.value /\ len >= 3

(***************************************************************************)
(* C9: remove(key) does not create a bucket: the set of buckets held is    *)
(* the same before and after the call.                                     *)
(***************************************************************************)
C9_RemoveCreatesNoBucket ==
    call.op = "remove" => Buckets(maps) = Buckets(pmaps)

(***************************************************************************)
(* C10: get_mut(key) on a key whose type has no bucket returns None and    *)
(* does not allocate a bucket.                                             *)
(***************************************************************************)
C10_GetMutMissAllocatesNothing ==
    (call.op = "get_mut" /\ TypeIdOf(call.K) \notin Buckets(pmaps)) =>
        ret = None /\ Buckets(maps) = Buckets(pmaps)

(***************************************************************************)
(* C11: get(key) never changes the container: hit or miss, a never-used    *)
(* key type included, it creates no bucket and leaves every entry and      *)
(* len() as they were; on a miss it returns None.                          *)
(***************************************************************************)
C11_GetChangesNothing ==
    call.op = "get" =>
        /\ ~aborted
        /\ maps = pmaps
        /\ len = plength
        /\ ~Before.some => ret = None

\* A get missed on a key type that has no bucket, in a container that has
\* entries of the other type.
C11_Witness ==
    /\ Did("get") /\ ret = None
    /\ TypeIdOf(call.K) \notin Buckets(pmaps)
    /\ len >= 2

(***************************************************************************)
(* C12: a bucket, once created, is held in every later state: no call      *)
(* removes a bucket, a remove that takes out the last entry of its key     *)
(* type included.  Every call starts from the state the call before it     *)
(* left, so it is enough that each call keeps the buckets it found.        *)
(***************************************************************************)
C12_BucketsPersist == Buckets(pmaps) \subseteq Buckets(maps)

\* A remove took out the only entry of its key type.
C12_Witness ==
    /\ Did("remove") /\ ret.some
    /\ TypeIdOf(call.K) \in Buckets(maps)
    /\ DOMAIN maps[TypeIdOf(call.K)].m = {}

(***************************************************************************)
(* C13: a new container holds no bucket and has len() = 0; in every        *)
(* reachable state is_empty() is true exactly when len() = 0, which is     *)
(* exactly when no entry of any key type is stored.                        *)
(***************************************************************************)
C13_EmptyIffNoEntries ==
    /\ call.op = "new" => (Buckets(maps) = {} /\ len = 0 /\ is_empty)
    /\ is_empty <=> (len = 0)
    /\ is_empty <=> (Entries(maps) = {})

\* The container was emptied again: buckets are held, none has an entry.
C13_Witness ==
    /\ Did("remove") /\ ret.some
    /\ is_empty
    /\ Buckets(maps) = {TypeIdOf(K) : K \in KeyTypes}

(***************************************************************************)
(* C14: the type-identity failure is unreachable: every bucket registered  *)
(* under the identifier of key type K was built for keys of type K, and no *)
(* call panics on the downcast.                                            *)
(***************************************************************************)
C14_NoTypeIdentityViolation ==
    /\ ~aborted
    /\ \A id \in Buckets(maps) :
          \E K \in KeyTypes : id = TypeIdOf(K) /\ Downcast(maps[id], K)

\* Buckets of both key types hold entries and the last call went through
\* the downcast of an existing bucket.
C14_Witness ==
    /\ call.op \in {"insert", "remove", "get", "get_mut"}
    /\ TypeIdOf(call.K) \in Buckets(pmaps)
    /\ \A K \in KeyTypes :
          TypeIdOf(K) \in Buckets(maps) /\ DOMAIN maps[TypeIdOf(K)].m # {}

(***************************************************************************)
(* C15: buckets are created lazily, once per key type.  An insert for a    *)
(* key type that has no bucket registers one bucket for it, empty but for  *)
(* the entry stored; an insert for a key type that has a bucket registers  *)
(* none and keeps every other entry of that bucket; no two buckets are for *)
(* the same key type.                                                      *)
(***************************************************************************)
C15_LazyBucketOnce ==
    /\ Did("insert") =>
          LET id == TypeIdOf(call.K)
          IN  IF id \in Buckets(pmaps)
              THEN /\ Buckets(maps) = Buckets(pmaps)
                   /\ \A k \in DOMAIN pmaps[id].m \ {call.key} :
                         /\ k \in DOMAIN maps[id].m
                         /\ maps[id].m[k] = pmaps[id].m[k]
              ELSE /\ Buckets(maps) = Buckets(pmaps) \cup {id}
                   /\ DOMAIN maps[id].m = {call.key}
    /\ \A K \in KeyTypes :
          Cardinality({id \in Buckets(maps) : maps[id].ty = K}) <= 1

\* An insert of a new key went into a bucket that already had an entry.
C15_Witness ==
    /\ Did("insert") /\ ret = None
    /\ TypeIdOf(call.K) \in Buckets(pmaps)
    /\ DOMAIN pmaps[TypeIdOf(call.K)].m # {}

(***************************************************************************)
(* C16: every miss is total and free of side effects: get, get_mut and     *)
(* remove on a key that is not present return None without aborting, and   *)
(* the set of buckets, every entry and len() are as before the call.       *)
(***************************************************************************)
C16_MissChangesNothing ==
    (call.op \in {"get", "get_mut", "remove"} /\ ~Before.some) =>
        /\ ~aborted
        /\ ret = None
        /\ Buckets(maps) = Buckets(pmaps)
        /\ Entries(maps) = Entries(pmaps)
        /\ len = plength

(***************************************************************************)
(* C18: the length counter never underflows: insert decrements at          *)
(* length + 1 and remove at the length it found, each only when a value    *)
(* came out of the bucket, and there the counter is at least 1; len() is   *)
(* never below 0.                                                          *)
(***************************************************************************)
C18_NoUnderflow ==
    /\ len >= 0
    /\ (call.op = "insert" /\ ret.some) => (plength + 1 >= 1 /\ len = plength)
    /\ (call.op = "remove" /\ ret.some) => (plength >= 1 /\ len = plength - 1)
    /\ (call.op = "remove" /\ ~ret.some) => len = plength

\* The entry of a present key was replaced, then the key was removed, taking
\* the counter from 1 to 0.
C18_Witness == Did("remove") /\ ret.some /\ plength = 1 /\ len = 0

(***************************************************************************)
(* C17: insert and remove calls on distinct keys commute: for two calls    *)
(* whose keys differ (in key type, or in the key within one type), running *)
(* them in either order from the same state gives each call the same       *)
(* return value and gives the same final entries and len().                *)
(***************************************************************************)

\* The insert and remove calls a caller can make.
UpdateCalls ==
    {Call("insert", K, key, value) : K \in KeyTypes, key \in Keys, value \in Values}
        \cup {Call("remove", K, key, 0) : K \in KeyTypes, key \in Keys}

\* Call c made on a container with buckets ms and counter n.
Apply(c, ms, n) ==
    IF c.op = "insert"
    THEN insert(ms, n, c.K, c.key, c.value)
    ELSE remove(ms, n, c.K, c.key)

C17_DistinctKeysCommute ==
    \A c1, c2 \in UpdateCalls :
        (c1.K # c2.K \/ c1.key # c2.key) =>
            LET a1 == Apply(c1, maps, length)
                a2 == Apply(c2, a1.maps, a1.length)
                b2 == Apply(c2, maps, length)
                b1 == Apply(c1, b2.maps, b2.length)
            IN  /\ a1.ok /\ a2.ok /\ b1.ok /\ b2.ok
                /\ a1.ret = b1.ret
                /\ a2.ret = b2.ret
                /\ Entries(a2.maps) = Entries(b1.maps)
                /\ a2.length = b1.length

\* An insert left one key type with two entries or more and the other with
\* no bucket: from here pairs of calls hit, miss, overwrite and create
\* buckets in either order.
C17_Witness ==
    /\ Did("insert")
    /\ \E K1, K2 \in KeyTypes :
          /\ TypeIdOf(K1) \in Buckets(maps)
          /\ Cardinality(DOMAIN maps[TypeIdOf(K1)].m) >= 2
          /\ TypeIdOf(K2) \notin Buckets(maps)
====
